---- MODULE Spec2Model ----
(***************************************************************************)
(* Model of the main event / rendering loop of vice (src/main.go, main()). *)
(* One iteration of the loop is a fixed sequence of phases; the program    *)
(* counter pc names the phase that runs next.  Collaborators (platform,    *)
(* server, ui, panes, audio, configuration) are represented by the calls   *)
(* main() makes on them and by the state main() reads back from them.      *)
(***************************************************************************)
EXTENDS Integers, Sequences, FiniteSets, TLC

\* ---------------------------------------------------------------- bounds
\* Iterations of the loop that are explored (frameIndex values 0..MaxFrames-1).
MaxFrames == 6
\* Change records that the session and the drawing code create in one run.
MaxRecords == 3
\* Modal dialogs that can be stacked in ui.activeModalDialogs.
MaxDialogs == 2

\* ------------------------------------------------------ program constants
\* frameIndex%600 (developer mode) and frameIndex%3600, src/main.go:225
StatsPeriodDev == 600
StatsPeriod == 3600

VARIABLES
    pc,                 \* phase of the loop body that runs next
    server,             \* variant of the global `server`
    shouldStop,         \* platform.ShouldStop()
    wantExit,           \* local wantExit of main()
    controlUpdates,     \* records held by the global controlUpdates
    nextRecord,         \* id of the next change record to be created
    activeModalDialogs, \* ui.activeModalDialogs
    frameIndex,         \* local frameIndex of main()
    devmode,            \* command-line flag -devmode
    calls,              \* collaborator calls made so far in this iteration
    hist,               \* shutdown-related calls made since the loop began
    delivered,          \* records handed to each consumer since the loop began
    context,            \* local `context` of main(): "nil" or "created"
    platform,           \* global `platform`: "nil" or "created"
    renderer,           \* global `renderer`: "nil" or "created"
    panicValue,         \* value of the panic that unwinds main(), or "none"
    exitlog             \* calls made by main() outside the loop

\* The variables of the process around the loop.
procVars == <<context, platform, renderer, panicValue, exitlog>>

vars == <<pc, server, shouldStop, wantExit, controlUpdates, nextRecord,
          activeModalDialogs, frameIndex, devmode, calls, hist, delivered,
          context, platform, renderer, panicValue, exitlog>>

\* ------------------------------------------------------------- helpers
\* A collaborator call without an update batch.
Call(op) == [op |-> op, arg |-> <<>>]

\* A collaborator call that is handed the update batch b.
CallB(op, b) == [op |-> op, arg |-> b]

\* The names of the calls of a call log, in order.
Ops(log) == [i \in 1..Len(log) |-> log[i].op]

\* The sequence s without its i-th element.
RemoveAt(s, i) == [j \in 1..(Len(s) - 1) |-> IF j < i THEN s[j] ELSE s[j + 1]]

\* ------------------------------------------------------- the update set
\* The consumers of an update batch (src/main.go:197-199).
Consumers == {"positionConfig.Update", "wmShareUpdates", "audioProcessUpdates"}

Record_Overwrite(cu, r) == <<r>>

\* A change is recorded into the update set: appended at the tail.
Record(cu, r) == Append(cu, r)

\* controlUpdates.Reset(): clears all records.
Reset(cu) == <<>>

\* ------------------------------------------------- the phases of the loop
PhaseOrder_SendAfterReceive ==
    <<"title", "events", "recv", "send", "prop", "draw", "present",
      "telemetry", "exitcheck">>

\* The statements of the loop body, top-down (src/main.go:176-261).
PhaseOrder ==
    <<"title", "events", "send", "recv", "prop", "draw", "present",
      "telemetry", "exitcheck">>

PhaseIndex(p) == CHOOSE i \in 1..Len(PhaseOrder) : PhaseOrder[i] = p

\* The phase that follows p in the same iteration; after the last statement
\* of the body the for-loop starts the next iteration.
NextPhase(p) ==
    IF PhaseIndex(p) = Len(PhaseOrder) THEN PhaseOrder[1]
    ELSE PhaseOrder[PhaseIndex(p) + 1]

\* ---------------------------------------------------------------- Init
\* State at "Starting main loop": server = &DisconnectedATCServer{} (104),
\* controlUpdates = NewControlUpdates() (168), frameIndex := 0 (173),
\* wantExit := false (174).
Init ==
    /\ pc = "title"
    /\ server = "Disconnected"
    /\ shouldStop = FALSE
    /\ wantExit = FALSE
    /\ controlUpdates = <<>>
    /\ nextRecord = 1
    /\ activeModalDialogs = <<>>
    /\ frameIndex = 0
    /\ devmode \in BOOLEAN
    /\ calls = <<>>
    /\ hist = <<>>
    /\ delivered = [c \in Consumers |-> <<>>]
    /\ context = "created"
    /\ platform = "created"
    /\ renderer = "created"
    /\ panicValue = "none"
    /\ exitlog = <<>>

\* ------------------------------------------------------------ phase 1
\* platform.SetWindowTitle("vice: " + server.GetWindowTitle())
TitleRefresh ==
    /\ pc = "title"
    /\ frameIndex < MaxFrames
    /\ calls' = <<Call("SetWindowTitle")>>
    /\ pc' = NextPhase(pc)
    /\ UNCHANGED <<procVars, delivered,
                   server, shouldStop, wantExit, controlUpdates, nextRecord,
                   activeModalDialogs, frameIndex, devmode, hist>>

\* ------------------------------------------------------------ phase 2
\* platform.ProcessEvents(): delivers the queued input events; the operator
\* may have asked to close the window, which raises the close signal.
ProcessEvents ==
    /\ pc = "events"
    /\ \E closeClicked \in BOOLEAN :
          shouldStop' = (shouldStop \/ closeClicked)
    /\ calls' = Append(calls, Call("ProcessEvents"))
    /\ pc' = NextPhase(pc)
    /\ UNCHANGED <<procVars, delivered,
                   server, wantExit, controlUpdates, nextRecord,
                   activeModalDialogs, frameIndex, devmode, hist>>

\* ------------------------------------------------------------ phase 3
\* positionConfig.SendUpdates()
SendUpdates ==
    /\ pc = "send"
    /\ calls' = Append(calls, Call("SendUpdates"))
    /\ pc' = NextPhase(pc)
    /\ UNCHANGED <<procVars, delivered,
                   server, shouldStop, wantExit, controlUpdates, nextRecord,
                   activeModalDialogs, frameIndex, devmode, hist>>

\* ------------------------------------------------------------ phase 4
\* server.GetUpdates(): a Connected session may merge network-derived
\* changes into controlUpdates; a Disconnected one reports nothing.
GetUpdates ==
    /\ pc = "recv"
    /\ \E arrived \in BOOLEAN :
          IF arrived /\ server = "Connected" /\ nextRecord <= MaxRecords
          THEN /\ controlUpdates' = Record(controlUpdates, nextRecord)
               /\ nextRecord' = nextRecord + 1
          ELSE UNCHANGED <<controlUpdates, nextRecord>>
    /\ calls' = Append(calls, Call("GetUpdates"))
    /\ pc' = NextPhase(pc)
    /\ UNCHANGED <<procVars, delivered,
                   server, shouldStop, wantExit, activeModalDialogs,
                   frameIndex, devmode, hist>>

\* ------------------------------------------------------------ phase 5
\* controlUpdates.NoUpdates(): no record since the last Reset.
NoUpdates(cu) == Len(cu) = 0

ShouldPropagate_Always(cu) == TRUE

\* if !controlUpdates.NoUpdates() { ... }
ShouldPropagate(cu) == ~NoUpdates(cu)

PropagationCalls_NoAudio(b) ==
    <<CallB("positionConfig.Update", b), CallB("wmShareUpdates", b),
      Call("controlUpdates.Reset")>>

PropagationCalls_ResetFirst(b) ==
    <<Call("controlUpdates.Reset"), CallB("positionConfig.Update", b),
      CallB("wmShareUpdates", b), CallB("audioProcessUpdates", b)>>

PropagationCalls_PanesFirst(b) ==
    <<CallB("wmShareUpdates", b), CallB("positionConfig.Update", b),
      CallB("audioProcessUpdates", b), Call("controlUpdates.Reset")>>

\* The body of the if: the three consumers get the batch, then Reset.
PropagationCalls(b) ==
    <<CallB("positionConfig.Update", b), CallB("wmShareUpdates", b),
      CallB("audioProcessUpdates", b), Call("controlUpdates.Reset")>>

\* The records that the calls of log hand to the consumer c.
HandedTo(c, log) ==
    IF \E i \in 1..Len(log) : log[i].op = c
    THEN log[CHOOSE i \in 1..Len(log) : log[i].op = c].arg
    ELSE <<>>

Propagate ==
    /\ pc = "prop"
    /\ ShouldPropagate(controlUpdates)
    /\ calls' = calls \o PropagationCalls(controlUpdates)
    /\ delivered' = [c \in Consumers |->
                        delivered[c] \o HandedTo(c, PropagationCalls(controlUpdates))]
    /\ controlUpdates' = Reset(controlUpdates)
    /\ pc' = NextPhase(pc)
    /\ UNCHANGED <<procVars, server, shouldStop, wantExit, nextRecord,
                   activeModalDialogs, frameIndex, devmode, hist>>

SkipPropagation ==
    /\ pc = "prop"
    /\ ~ShouldPropagate(controlUpdates)
    /\ pc' = NextPhase(pc)
    /\ UNCHANGED <<procVars, delivered,
                   server, shouldStop, wantExit, controlUpdates, nextRecord,
                   activeModalDialogs, frameIndex, devmode, calls, hist>>

\* ------------------------------------------------------------ phase 6
\* platform.NewFrame(); imgui.NewFrame(); wmDrawPanes(...); drawUI(...);
\* imgui.Render(); renderer.RenderImgui(...)
DrawCalls ==
    <<Call("NewFrame"), Call("wmDrawPanes"), Call("drawUI"),
      Call("RenderImgui")>>

\* What every run of the draw phase does, whatever the operator did.
Drawn ==
    /\ pc = "draw"
    /\ calls' = calls \o DrawCalls
    /\ pc' = NextPhase(pc)

\* The operator does nothing that the loop depends on.
DrawIdle ==
    /\ Drawn
    /\ UNCHANGED <<procVars, delivered,
                   server, shouldStop, wantExit, controlUpdates, nextRecord,
                   activeModalDialogs, frameIndex, devmode, hist>>

\* "we may add new updates in the following draw calls that we'd like to
\* have reported the next time around" (src/main.go:201-202).
DrawRecord ==
    /\ Drawn
    /\ nextRecord <= MaxRecords
    /\ controlUpdates' = Record(controlUpdates, nextRecord)
    /\ nextRecord' = nextRecord + 1
    /\ UNCHANGED <<procVars, delivered,
                   server, shouldStop, wantExit, activeModalDialogs,
                   frameIndex, devmode, hist>>

\* The operator connects through the UI: the global server is replaced by a
\* connected session.
DrawConnect ==
    /\ Drawn
    /\ server = "Disconnected"
    /\ server' = "Connected"
    /\ UNCHANGED <<procVars, delivered,
                   shouldStop, wantExit, controlUpdates, nextRecord,
                   activeModalDialogs, frameIndex, devmode, hist>>

\* The operator answers "yes" in the "Disconnect?" dialog: the ok callback,
\* server.Disconnect(); server = &DisconnectedATCServer{}
DrawDialogOk ==
    /\ Drawn
    /\ \E i \in 1..Len(activeModalDialogs) :
          /\ activeModalDialogs[i] = "Disconnect?"
          /\ activeModalDialogs' = RemoveAt(activeModalDialogs, i)
    /\ hist' = Append(hist, "server.Disconnect")
    /\ server' = "Disconnected"
    /\ UNCHANGED <<procVars, delivered,
                   shouldStop, wantExit, controlUpdates, nextRecord,
                   frameIndex, devmode>>

\* The operator answers "no" in the "Disconnect?" dialog: the notok
\* callback, platform.CancelShouldStop(); wantExit = false
DrawDialogNotOk ==
    /\ Drawn
    /\ \E i \in 1..Len(activeModalDialogs) :
          /\ activeModalDialogs[i] = "Disconnect?"
          /\ activeModalDialogs' = RemoveAt(activeModalDialogs, i)
    /\ hist' = Append(hist, "platform.CancelShouldStop")
    /\ shouldStop' = FALSE
    /\ wantExit' = FALSE
    /\ UNCHANGED <<procVars, delivered,
                   server, controlUpdates, nextRecord, frameIndex, devmode>>

\* The operator answers the dialog that PromptToSaveIfChanged put up.
DrawDialogSave ==
    /\ Drawn
    /\ \E i \in 1..Len(activeModalDialogs) :
          /\ activeModalDialogs[i] = "Save?"
          /\ activeModalDialogs' = RemoveAt(activeModalDialogs, i)
    /\ UNCHANGED <<procVars, delivered,
                   server, shouldStop, wantExit, controlUpdates, nextRecord,
                   frameIndex, devmode, hist>>

\* ------------------------------------------------------------ phase 7
\* platform.PostRender(): wait for vsync.
PostRender ==
    /\ pc = "present"
    /\ calls' = Append(calls, Call("PostRender"))
    /\ pc' = NextPhase(pc)
    /\ UNCHANGED <<procVars, delivered,
                   server, shouldStop, wantExit, controlUpdates, nextRecord,
                   activeModalDialogs, frameIndex, devmode, hist>>

\* ------------------------------------------------------------ phase 8
\* (*devmode && frameIndex%600 == 0) || frameIndex%3600 == 0
LogStatsDue ==
    (devmode /\ frameIndex % StatsPeriodDev = 0) \/ frameIndex % StatsPeriod = 0

\* if ... { lg.LogStats(stats) }; frameIndex++
Telemetry ==
    /\ pc = "telemetry"
    /\ calls' = IF LogStatsDue THEN Append(calls, Call("LogStats")) ELSE calls
    /\ frameIndex' = frameIndex + 1
    /\ pc' = NextPhase(pc)
    /\ UNCHANGED <<procVars, delivered,
                   server, shouldStop, wantExit, controlUpdates, nextRecord,
                   activeModalDialogs, devmode, hist>>

\* ------------------------------------------------------------ phase 9
FirstObservation_Always == TRUE

\* if !wantExit { ... } (src/main.go:231)
FirstObservation == ~wantExit

ShowsDialog_Always == TRUE

\* if server.Connected() { uiShowModalDialog(...) } (src/main.go:234)
ShowsDialog == server = "Connected"

CanBreak_Never == FALSE

CanBreak_IgnoringDialogs == TRUE

\* else if len(ui.activeModalDialogs) == 0 { break } (src/main.go:256)
CanBreak == Len(activeModalDialogs) = 0

\* Grab assorted things that may have changed during this session, then
\* globalConfig.PromptToSaveIfChanged (src/main.go:249-255).
PersistenceCalls ==
    <<"imgui.SaveIniSettingsToMemory", "platform.WindowSize",
      "platform.WindowPosition", "PromptToSaveIfChanged">>

\* The calls of the branch taken when the close request is first observed.
AcknowledgeCalls ==
    <<"wantExit=true", IF server = "Connected" THEN "Connected=true"
                       ELSE "Connected=false">>
    \o (IF ShowsDialog THEN <<"uiShowModalDialog">> ELSE <<>>)
    \o PersistenceCalls

\* platform.ShouldStop() is false: nothing to do, next iteration.
ExitCheckRunning ==
    /\ pc = "exitcheck"
    /\ ~shouldStop
    /\ calls' = Append(calls, Call("ShouldStop"))
    /\ pc' = NextPhase(pc)
    /\ UNCHANGED <<procVars, delivered,
                   server, shouldStop, wantExit, controlUpdates, nextRecord,
                   activeModalDialogs, frameIndex, devmode, hist>>

\* The close request is observed with wantExit false (src/main.go:231-255).
\* PromptToSaveIfChanged may put up a modal dialog of its own.
ExitCheckAcknowledge ==
    /\ pc = "exitcheck"
    /\ shouldStop
    /\ FirstObservation
    /\ wantExit' = TRUE
    /\ hist' = hist \o AcknowledgeCalls
    /\ \E prompt \in BOOLEAN :
          LET shown == IF ShowsDialog
                       THEN Append(activeModalDialogs, "Disconnect?")
                       ELSE activeModalDialogs
          IN  activeModalDialogs' =
                 IF prompt /\ Len(shown) < MaxDialogs
                 THEN Append(shown, "Save?") ELSE shown
    /\ calls' = Append(calls, Call("ShouldStop"))
    /\ pc' = NextPhase(pc)
    /\ UNCHANGED <<procVars, delivered,
                   server, shouldStop, controlUpdates, nextRecord,
                   frameIndex, devmode>>

\* The close request was acknowledged earlier but a modal dialog is still
\* active: neither branch runs.
ExitCheckWait ==
    /\ pc = "exitcheck"
    /\ shouldStop
    /\ ~FirstObservation
    /\ ~CanBreak
    /\ calls' = Append(calls, Call("ShouldStop"))
    /\ pc' = NextPhase(pc)
    /\ UNCHANGED <<procVars, delivered,
                   server, shouldStop, wantExit, controlUpdates, nextRecord,
                   activeModalDialogs, frameIndex, devmode, hist>>

\* good to go: break
ExitCheckBreak ==
    /\ pc = "exitcheck"
    /\ shouldStop
    /\ ~FirstObservation
    /\ CanBreak
    /\ calls' = Append(calls, Call("ShouldStop"))
    /\ hist' = Append(hist, "break")
    /\ pc' = "done"
    /\ UNCHANGED <<procVars, delivered,
                   server, shouldStop, wantExit, controlUpdates, nextRecord,
                   activeModalDialogs, frameIndex, devmode>>

\* ------------------------------------------------------- specification
Next ==
    \/ TitleRefresh
    \/ ProcessEvents
    \/ SendUpdates
    \/ GetUpdates
    \/ Propagate
    \/ SkipPropagation
    \/ DrawIdle
    \/ DrawRecord
    \/ DrawConnect
    \/ DrawDialogOk
    \/ DrawDialogNotOk
    \/ DrawDialogSave
    \/ PostRender
    \/ Telemetry
    \/ ExitCheckRunning
    \/ ExitCheckAcknowledge
    \/ ExitCheckWait
    \/ ExitCheckBreak

Spec == Init /\ [][Next]_vars

\* ------------------------------------------- startup and the way out
\* main() from its first statement: the globals are not set yet.
Start ==
    /\ pc = "setup"
    /\ server = "nil"
    /\ shouldStop = FALSE
    /\ wantExit = FALSE
    /\ controlUpdates = <<>>
    /\ nextRecord = 1
    /\ activeModalDialogs = <<>>
    /\ frameIndex = 0
    /\ devmode \in BOOLEAN
    /\ calls = <<>>
    /\ hist = <<>>
    /\ delivered = [c \in Consumers |-> <<>>]
    /\ context = "nil"
    /\ platform = "nil"
    /\ renderer = "nil"
    /\ panicValue = "none"
    /\ exitlog = <<>>

\* flag.Parse() ... globalConfig.AudioSettings.MuteFor (src/main.go:84-115):
\* the logger, the imgui context and the disconnected session exist.
Setup ==
    /\ pc = "setup"
    /\ context' = "created"
    /\ server' = "Disconnected"
    /\ pc' = "platform"
    /\ UNCHANGED <<shouldStop, wantExit, controlUpdates, nextRecord,
                   activeModalDialogs, frameIndex, devmode, calls, hist,
                   delivered, platform, renderer, panicValue, exitlog>>

AbortsOnError_Never(failed) == FALSE

\* if err != nil { panic(...) } (src/main.go:132-134 and 162-164)
AbortsOnError(failed) == failed

\* platform, err = NewGLFWPlatform(...); on an error the value assigned to
\* platform is whatever the constructor returned with it.
CreatePlatform ==
    /\ pc = "platform"
    /\ \E failed \in BOOLEAN, returned \in {"nil", "created"} :
          /\ platform' = IF failed THEN returned ELSE "created"
          /\ exitlog' = Append(exitlog, IF failed THEN "NewGLFWPlatform=error"
                                        ELSE "NewGLFWPlatform=ok")
          /\ IF AbortsOnError(failed)
             THEN /\ pc' = "unwinding"
                  /\ panicValue' = "Unable to create application window"
             ELSE /\ pc' = "renderer"
                  /\ UNCHANGED panicValue
    /\ UNCHANGED <<server, shouldStop, wantExit, controlUpdates, nextRecord,
                   activeModalDialogs, frameIndex, devmode, calls, hist,
                   delivered, context, renderer>>

\* imgui.CurrentIO().SetClipboard ... controlUpdates = NewControlUpdates()
\* (src/main.go:135-175), with renderer, err = NewOpenGL2Renderer(...).
CreateRenderer ==
    /\ pc = "renderer"
    /\ \E failed \in BOOLEAN, returned \in {"nil", "created"} :
          /\ renderer' = IF failed THEN returned ELSE "created"
          /\ exitlog' = Append(exitlog, IF failed THEN "NewOpenGL2Renderer=error"
                                        ELSE "NewOpenGL2Renderer=ok")
          /\ IF AbortsOnError(failed)
             THEN /\ pc' = "unwinding"
                  /\ panicValue' = "Unable to initialize OpenGL"
             ELSE /\ pc' = "title"
                  /\ UNCHANGED panicValue
    /\ UNCHANGED <<server, shouldStop, wantExit, controlUpdates, nextRecord,
                   activeModalDialogs, frameIndex, devmode, calls, hist,
                   delivered, context, platform>>

\* A collaborator called by the phase that runs next panics; nothing in the
\* loop catches it, so main() unwinds.
Fault ==
    /\ \E i \in 1..Len(PhaseOrder) : pc = PhaseOrder[i]
    /\ pc' = "unwinding"
    /\ panicValue' = "fault"
    /\ UNCHANGED <<server, shouldStop, wantExit, controlUpdates, nextRecord,
                   activeModalDialogs, frameIndex, devmode, calls, hist,
                   delivered, context, platform, renderer, exitlog>>

RecoverCalls_FlushOnlyOnPanic(recovered) ==
    IF recovered # "none"
    THEN <<"lg.Errorf", "ShowFatalErrorDialog", "lg.SaveLogs">>
    ELSE <<>>

\* The head of the deferred function: if err := recover(); err != nil
\* { lg.Errorf; ShowFatalErrorDialog }; lg.SaveLogs() (src/main.go:67-73)
RecoverCalls(recovered) ==
    (IF recovered # "none" THEN <<"lg.Errorf", "ShowFatalErrorDialog">>
     ELSE <<>>) \o <<"lg.SaveLogs">>

\* The tail of the deferred function: renderer.Dispose(); platform.Dispose();
\* context.Destroy() (src/main.go:75-78), without a test of what exists.  A
\* call on a nil value is a nil dereference, which ends the function.
CleanupCalls ==
    IF renderer = "nil" THEN <<"renderer.Dispose on nil">>
    ELSE <<"renderer.Dispose">> \o
         (IF platform = "nil" THEN <<"platform.Dispose on nil">>
          ELSE <<"platform.Dispose">> \o
               (IF context = "nil" THEN <<"context.Destroy on nil">>
                ELSE <<"context.Destroy">>))

\* The cleanup dereferences nil.
CleanupFaults == renderer = "nil" \/ platform = "nil" \/ context = "nil"

\* The deferred function as a whole; a panic raised inside it is not
\* recovered by anything and ends the process.
Deferred(recovered) ==
    /\ exitlog' = exitlog \o RecoverCalls(recovered) \o CleanupCalls
    /\ IF CleanupFaults
       THEN pc' = "crashed" /\ panicValue' = "nil dereference"
       ELSE pc' = "exited" /\ UNCHANGED panicValue
    /\ UNCHANGED <<server, shouldStop, wantExit, controlUpdates, nextRecord,
                   activeModalDialogs, frameIndex, devmode, calls, hist,
                   delivered, context, platform, renderer>>

\* main() returns after the break (src/main.go:263-277): recover() is nil.
ReturnFromMain ==
    /\ pc = "done"
    /\ Deferred("none")

\* main() unwinds with a panic: recover() returns its value.
RecoverPanic ==
    /\ pc = "unwinding"
    /\ Deferred(panicValue)

NextF ==
    \/ Next
    \/ Setup
    \/ CreatePlatform
    \/ CreateRenderer
    \/ Fault
    \/ ReturnFromMain
    \/ RecoverPanic

\* main() from its first statement, with failing constructors and
\* panicking collaborators.
FaultSpec == Start /\ [][NextF]_vars

\* ---------------------------------------- the loop without a frame limit
\* if ... { lg.LogStats(stats) }; frameIndex++, with the frames from
\* MaxFrames - 1 on counted as one: none of them is a multiple of a
\* statistics period, so LogStats is due in none of them.
TelemetryLater ==
    /\ pc = "telemetry"
    /\ calls' = IF LogStatsDue THEN Append(calls, Call("LogStats")) ELSE calls
    /\ frameIndex' = IF frameIndex + 1 < MaxFrames THEN frameIndex + 1
                     ELSE frameIndex
    /\ pc' = NextPhase(pc)
    /\ UNCHANGED <<procVars, delivered,
                   server, shouldStop, wantExit, controlUpdates, nextRecord,
                   activeModalDialogs, devmode, hist>>

\* The steps of a run in which the operator never answers "no".
LiveNext ==
    \/ TitleRefresh
    \/ ProcessEvents
    \/ SendUpdates
    \/ GetUpdates
    \/ Propagate
    \/ SkipPropagation
    \/ DrawIdle
    \/ DrawRecord
    \/ DrawConnect
    \/ DrawDialogOk
    \/ DrawDialogSave
    \/ PostRender
    \/ TelemetryLater
    \/ ExitCheckRunning
    \/ ExitCheckAcknowledge
    \/ ExitCheckWait
    \/ ExitCheckBreak

\* The loop is a `for` without condition whose phases all return, so as long
\* as it has not reached the break it takes its next step.
LiveSpec == Init /\ [][LiveNext]_vars /\ WF_vars(LiveNext)

\* ================================================================ claims
\* Events of hist.
Ack == "wantExit=true"
Cancel == "platform.CancelShouldStop"
Persisted == "PromptToSaveIfChanged"

\* Names of the calls of the propagation phase.
ConsumerOps == {"positionConfig.Update", "wmShareUpdates", "audioProcessUpdates"}
PropOps == ConsumerOps \cup {"controlUpdates.Reset"}

\* Number of calls of log whose name is in the set ops.
NumOps(ops, log) == Cardinality({i \in 1..Len(log) : log[i].op \in ops})

\* Positions in log of the calls named op.
Pos(op, log) == {i \in 1..Len(log) : log[i].op = op}

\* Positions of hist at which a close attempt begins: an acknowledgement of
\* the close request that is the first one since the loop began or since
\* the last "no".
AttemptStarts ==
    {i \in 1..Len(hist) :
        /\ hist[i] = Ack
        /\ \A j \in 1..(i - 1) :
              hist[j] = Ack => \E k \in (j + 1)..(i - 1) : hist[k] = Cancel}

\* Last position of the attempt that begins at i: the "no" that resolves it,
\* or the end of hist.
AttemptEnd(i) ==
    IF \E j \in (i + 1)..Len(hist) : hist[j] = Cancel
    THEN CHOOSE j \in (i + 1)..Len(hist) :
            /\ hist[j] = Cancel
            /\ \A k \in (i + 1)..(j - 1) : hist[k] # Cancel
    ELSE Len(hist)

\* Occurrences of the event e in hist[i..j].
CountIn(e, i, j) == Cardinality({k \in i..j : hist[k] = e})

\* The attempt that begins at i found the session Connected.
ConnectedAttempt(i) == i < Len(hist) /\ hist[i + 1] = "Connected=true"

\* The "Disconnect?" dialog is open.
ConfirmPending == \E i \in 1..Len(activeModalDialogs) : activeModalDialogs[i] = "Disconnect?"

\* ---------------------------------------------------------------- C1
\* C1: whenever the update set is non-empty at the propagation phase, that
\* step calls positionConfig.Update, wmShareUpdates and audioProcessUpdates
\* with that same batch, in this order, and controlUpdates.Reset after the
\* three; in every call log the operator state is updated before the panes
\* see the batch.
C1_OrderInLog ==
    /\ \A op \in PropOps : Cardinality(Pos(op, calls)) <= 1
    /\ \A i \in Pos("wmShareUpdates", calls) :
          \E j \in Pos("positionConfig.Update", calls) :
             j < i /\ calls[j].arg = calls[i].arg
    /\ \A i \in Pos("audioProcessUpdates", calls) :
          \E j \in Pos("wmShareUpdates", calls) :
             j < i /\ calls[j].arg = calls[i].arg
    /\ \A i \in Pos("controlUpdates.Reset", calls) :
          \A op \in ConsumerOps : \E j \in Pos(op, calls) : j < i

C1_PropagationStep ==
    (pc = "prop" /\ Len(controlUpdates) > 0) =>
       calls' = calls \o <<CallB("positionConfig.Update", controlUpdates),
                           CallB("wmShareUpdates", controlUpdates),
                           CallB("audioProcessUpdates", controlUpdates),
                           Call("controlUpdates.Reset")>>

C1_FixedPropagationOrder == []C1_OrderInLog /\ [][C1_PropagationStep]_vars

\* A batch of two records, one recorded while drawing and one received, has
\* been propagated.
C1_Witness ==
    /\ pc = "draw"
    /\ \E i \in Pos("wmShareUpdates", calls) : Len(calls[i].arg) = 2
    /\ Pos("controlUpdates.Reset", calls) # {}

\* ---------------------------------------------------------------- C2
\* C2: a step of the propagation phase that starts with an empty update set
\* calls none of positionConfig.Update, wmShareUpdates, audioProcessUpdates
\* and controlUpdates.Reset, and no other phase calls them: such a call is
\* only ever made at the propagation phase with a non-empty set.
C2_EmptyStep ==
    NumOps(PropOps, calls') > NumOps(PropOps, calls) =>
       pc = "prop" /\ Len(controlUpdates) > 0

C2_EmptyBatchNotPropagated == [][C2_EmptyStep]_vars

\* A connected iteration went through the propagation phase with nothing to
\* propagate.
C2_Witness ==
    /\ pc = "draw"
    /\ server = "Connected"
    /\ controlUpdates = <<>>
    /\ NumOps(PropOps, calls) = 0

\* ---------------------------------------------------------------- C3
\* C3: every close attempt that finds the session Connected opens exactly
\* one confirmation dialog, from its first observation until it is
\* resolved, and at most one "Disconnect?" dialog is open at any time.
C3_OneDialogPerAttempt ==
    /\ \A i \in AttemptStarts :
          ConnectedAttempt(i) =>
             CountIn("uiShowModalDialog", i, AttemptEnd(i)) = 1
    /\ Cardinality({i \in 1..Len(activeModalDialogs) :
                       activeModalDialogs[i] = "Disconnect?"}) <= 1

\* Two attempts with a "no" between them; the dialog of the second one is
\* still open in the iteration after the one that opened it.
C3_Witness ==
    /\ Cardinality(AttemptStarts) = 2
    /\ \A i \in AttemptStarts : ConnectedAttempt(i)
    /\ ConfirmPending
    /\ pc = "draw"

\* ---------------------------------------------------------------- C4
\* The persistence calls made in hist[i..j].
PersistenceIn(i, j) ==
    {k \in i..j : \E n \in 1..Len(PersistenceCalls) : hist[k] = PersistenceCalls[n]}

\* The attempt that is open at the end of hist began here.
CurrentAttempt == CHOOSE i \in AttemptStarts : \A j \in AttemptStarts : j <= i

\* C4: the step that resolves the confirmation "no" leaves the close flag
\* cleared, wantExit false and the session Connected, and no persistence
\* call was made since the close request of that attempt.
C4_NoStep ==
    (hist' = Append(hist, Cancel)) =>
       /\ ~shouldStop'
       /\ ~wantExit'
       /\ server' = "Connected"
       /\ PersistenceIn(CurrentAttempt, Len(hist)) = {}

C4_CancelLeavesNoPersistence == [][C4_NoStep]_vars

\* ---------------------------------------------------------------- C5
\* C5: when the loop has exited after a confirmation resolved "yes",
\* server.Disconnect was called exactly once in the final attempt, exactly
\* one persistence step was performed in it, and every persistence call
\* comes after the disconnect and before the break.
C5_DisconnectThenPersistThenExit ==
    (pc = "done" /\ ConnectedAttempt(CurrentAttempt)) =>
       LET a == CurrentAttempt
           n == Len(hist)
       IN  /\ CountIn("server.Disconnect", a, n) = 1
           /\ CountIn(Persisted, a, n) = 1
           /\ hist[n] = "break"
           /\ \A d \in {k \in a..n : hist[k] = "server.Disconnect"} :
                 \A q \in PersistenceIn(a, n) : d < q

\* ---------------------------------------------------------------- C6
\* C6: when the loop has exited, the persistence step has been performed
\* exactly once since the loop began, and it was performed in the attempt
\* that ended the loop.
C6_PersistenceExactlyOnce ==
    pc = "done" =>
       /\ CountIn(Persisted, 1, Len(hist)) = 1
       /\ CountIn(Persisted, CurrentAttempt, Len(hist)) = 1

\* ---------------------------------------------------------------- C7
\* The exit-check that first observes a close request, session Disconnected.
DisconnectedAcknowledge ==
    pc = "exitcheck" /\ shouldStop /\ ~wantExit /\ server = "Disconnected"

\* C7 as stated: that exit-check opens no dialog, performs the persistence
\* step once and exits the loop.
C7_ExitsWhereFirstObserved ==
    [][DisconnectedAcknowledge =>
          /\ hist' = hist \o <<Ack, "Connected=false">> \o PersistenceCalls \o <<"break">>
          /\ pc' = "done"]_vars

\* C7 as amended: that exit-check opens no dialog, performs the persistence
\* step once and does not exit; over the whole attempt no dialog is opened
\* by the shutdown logic and persistence is performed once, the close
\* request stays acknowledged, and the loop exits at the first later
\* exit-check at which no modal dialog is active.
C7_AcknowledgeStep ==
    DisconnectedAcknowledge =>
       /\ hist' = hist \o <<Ack, "Connected=false">> \o PersistenceCalls
       /\ ~ConfirmPending'
       /\ wantExit'
       /\ pc' = "title"

C7_LaterExitStep ==
    (pc = "exitcheck" /\ AttemptStarts # {} /\ ~ConnectedAttempt(CurrentAttempt)) =>
       IF Len(activeModalDialogs) = 0 THEN pc' = "done" ELSE pc' = "title"

C7_AttemptInv ==
    \A i \in AttemptStarts :
       ~ConnectedAttempt(i) =>
          /\ AttemptEnd(i) = Len(hist)
          /\ CountIn("uiShowModalDialog", i, Len(hist)) = 0
          /\ CountIn(Persisted, i, Len(hist)) = 1
          /\ wantExit /\ shouldStop /\ ~ConfirmPending

C7_DisconnectedCloseExitsLater ==
    /\ []C7_AttemptInv
    /\ [][C7_AcknowledgeStep /\ C7_LaterExitStep]_vars

\* The loop has exited from an attempt that found the session Disconnected,
\* after waiting for the dialog of PromptToSaveIfChanged.
C7_Witness ==
    /\ pc = "done"
    /\ ~ConnectedAttempt(CurrentAttempt)
    /\ frameIndex >= 3

\* ---------------------------------------------------------------- C8
\* Calls that generate application-level work.
WorkOps == {"SendUpdates", "GetUpdates"} \cup ConsumerOps

\* C8: no step taken while the "Disconnect?" dialog is open calls
\* positionConfig.SendUpdates, server.GetUpdates or a consumer of the
\* propagation phase.
C8_PendingStep ==
    ConfirmPending => NumOps(WorkOps, calls') <= NumOps(WorkOps, calls)

C8_NoWorkWhileConfirmPending == [][C8_PendingStep]_vars

\* ---------------------------------------------------------------- C9
\* The close request has been acknowledged and not cancelled since.
Acknowledged ==
    \E i \in 1..Len(hist) :
       hist[i] = Ack /\ \A k \in (i + 1)..Len(hist) : hist[k] # Cancel

\* C9: the loop ends only by the break of the exit-check, taken with the
\* close signal raised, wantExit set by an earlier exit-check and not
\* cancelled since, and no modal dialog active; once ended, no confirmation
\* is open and the last "no", if any, is followed by a new acknowledgement.
C9_BreakStep ==
    (pc' = "done" /\ pc # "done") =>
       /\ pc = "exitcheck"
       /\ shouldStop
       /\ wantExit
       /\ Acknowledged
       /\ Len(activeModalDialogs) = 0
       /\ hist' = Append(hist, "break")

C9_DoneInv ==
    pc = "done" =>
       /\ ~ConfirmPending
       /\ Len(activeModalDialogs) = 0
       /\ shouldStop /\ wantExit
       /\ Acknowledged

C9_ExitOnlyWhenTerminating == []C9_DoneInv /\ [][C9_BreakStep]_vars

\* The loop has exited from a second close attempt, the first one having
\* been resolved "no".
C9_Witness ==
    /\ pc = "done"
    /\ CountIn(Cancel, 1, Len(hist)) = 1
    /\ Cardinality(AttemptStarts) = 2

\* --------------------------------------------------------------- C10
\* The call logs of a complete iteration: the calls of the nine phases in
\* their order, with the propagation calls and LogStats when they are due.
IterationLogs ==
    {<<"SetWindowTitle", "ProcessEvents", "SendUpdates", "GetUpdates">>
        \o p \o <<"NewFrame", "wmDrawPanes", "drawUI", "RenderImgui", "PostRender">>
        \o t \o <<"ShouldStop">> :
        p \in {<<>>, <<"positionConfig.Update", "wmShareUpdates",
                       "audioProcessUpdates", "controlUpdates.Reset">>},
        t \in {<<>>, <<"LogStats">>}}

\* s is an initial part of t.
IsPrefix(s, t) == Len(s) <= Len(t) /\ \A i \in 1..Len(s) : s[i] = t[i]

\* C10: the call log of an iteration is always an initial part of the fixed
\* phase sequence and is the whole sequence when the iteration is over; the
\* close request is only acted on (wantExit set, dialog opened, persistence,
\* break) by the exit-check, after PostRender of the same iteration.
C10_LogInv ==
    /\ \E l \in IterationLogs : IsPrefix(Ops(calls), l)
    /\ (pc = "done" \/ (pc = "title" /\ Len(calls) > 0)) => Ops(calls) \in IterationLogs

C10_CloseStep ==
    ((wantExit' /\ ~wantExit) \/ (pc' = "done" /\ pc # "done")) =>
       /\ pc = "exitcheck"
       /\ Cardinality(Pos("PostRender", calls)) = 1
       /\ Cardinality(Pos("ProcessEvents", calls)) = 1

C10_FixedPhaseOrder == []C10_LogInv /\ [][C10_CloseStep]_vars

\* The first iteration is over: the close request raised by its input pull
\* was acknowledged at its exit-check, after all its other phases had run.
C10_Witness ==
    /\ pc = "title"
    /\ frameIndex = 1
    /\ wantExit
    /\ Len(hist) > 0
    /\ Len(calls) = 11

\* --------------------------------------------------------------- C11
\* The iteration whose calls are in the log is over.
IterationOver == pc = "done" \/ (pc = "title" /\ Len(calls) > 0)

\* C11 as stated: in every iteration controlUpdates.Reset is called exactly
\* once, after the three consumers.
C11_ResetOncePerFrame ==
    IterationOver =>
       /\ Cardinality(Pos("controlUpdates.Reset", calls)) = 1
       /\ \A c \in Consumers : \A i \in Pos(c, calls) :
             \A r \in Pos("controlUpdates.Reset", calls) : i < r

\* C11 as amended: controlUpdates.Reset is called at most once in an
\* iteration, exactly once when the update set is non-empty at the
\* propagation phase and not at all when it is empty, and always after the
\* three consumers of that iteration.
C11_LogInv ==
    /\ Cardinality(Pos("controlUpdates.Reset", calls)) <= 1
    /\ \A r \in Pos("controlUpdates.Reset", calls) :
          \A c \in Consumers : \E i \in Pos(c, calls) : i < r
    /\ \A r \in Pos("controlUpdates.Reset", calls) :
          \A c \in Consumers : \A i \in Pos(c, calls) : i < r
    /\ IterationOver =>
          (Pos("controlUpdates.Reset", calls) # {}
             <=> \A c \in Consumers : Pos(c, calls) # {})

C11_PropagationStep ==
    pc = "prop" =>
       Cardinality(Pos("controlUpdates.Reset", calls')) =
          (IF Len(controlUpdates) > 0 THEN 1 ELSE 0)

C11_ResetOnceWhenPropagating == []C11_LogInv /\ [][C11_PropagationStep]_vars

\* An iteration that propagated a batch is over, with its one Reset.
C11_Witness ==
    /\ IterationOver
    /\ Cardinality(Pos("controlUpdates.Reset", calls)) = 1
    /\ frameIndex >= 2

\* --------------------------------------------------------------- C12
\* The step records a change into the update set.
RecordStep == nextRecord' = nextRecord + 1

\* The step calls controlUpdates.Reset.
ResetStep ==
    Cardinality(Pos("controlUpdates.Reset", calls')) >
       Cardinality(Pos("controlUpdates.Reset", calls))

\* C12: the update set is empty when the loop begins; a record call appends
\* one record and leaves NoUpdates false, a reset leaves it true, between
\* resets the set only grows, and a step that neither records nor resets
\* leaves it as it is; so NoUpdates is false exactly when a record call has
\* occurred since the last reset (the records made so far are not all among
\* those that the resets have cleared).
C12_Step ==
    /\ RecordStep =>
          controlUpdates' = Append(controlUpdates, nextRecord)
          /\ ~NoUpdates(controlUpdates')
    /\ ResetStep => NoUpdates(controlUpdates') /\ ~RecordStep
    /\ ~ResetStep => IsPrefix(controlUpdates, controlUpdates')
    /\ (~RecordStep /\ ~ResetStep) => controlUpdates' = controlUpdates

C12_Inv ==
    /\ pc = "title" /\ calls = <<>> => NoUpdates(controlUpdates)
    /\ NoUpdates(controlUpdates) <=>
          Len(delivered["audioProcessUpdates"]) = nextRecord - 1

C12_UpdateSetGrowsUntilReset == []C12_Inv /\ [][C12_Step]_vars

\* Two records are in the set since the last reset, which cleared a third.
C12_Witness ==
    /\ Len(controlUpdates) = 2
    /\ nextRecord = 4
    /\ Len(delivered["audioProcessUpdates"]) = 1

\* --------------------------------------------------------------- C13
\* Occurrences of the call e in exitlog.
ExitCount(e) == Cardinality({i \in 1..Len(exitlog) : exitlog[i] = e})

\* The process is over: main() returned or died.
ProcessOver == pc \in {"exited", "crashed"}

\* C13: after a panic raised in a phase of the loop no step changes the
\* loop's state or logs again, the only step left is the deferred function,
\* and when the process is over the fatal-error dialog has been shown
\* exactly once, followed by one lg.SaveLogs, and main() has returned; when
\* main() returns after the break, lg.SaveLogs has run once and no dialog.
C13_AfterFaultStep ==
    panicValue = "fault" =>
       /\ UNCHANGED <<calls, hist, delivered, server, shouldStop, wantExit,
                      controlUpdates, activeModalDialogs, frameIndex>>
       /\ pc = "unwinding" /\ pc' = "exited"

C13_OverInv ==
    /\ (ProcessOver /\ panicValue = "fault") =>
          /\ pc = "exited"
          /\ ExitCount("ShowFatalErrorDialog") = 1
          /\ ExitCount("lg.SaveLogs") = 1
          /\ \E i, j \in 1..Len(exitlog) :
                /\ i < j
                /\ exitlog[i] = "ShowFatalErrorDialog"
                /\ exitlog[j] = "lg.SaveLogs"
    /\ (ProcessOver /\ panicValue = "none") =>
          /\ pc = "exited"
          /\ hist # <<>> /\ hist[Len(hist)] = "break"
          /\ ExitCount("ShowFatalErrorDialog") = 0
          /\ ExitCount("lg.SaveLogs") = 1

C13_FaultHandledOnceAtTop == []C13_OverInv /\ [][C13_AfterFaultStep]_vars

\* A collaborator panicked in the second iteration, after the receive phase,
\* and the process is over.
C13_Witness ==
    /\ pc = "exited"
    /\ panicValue = "fault"
    /\ frameIndex = 1
    /\ Len(calls) = 4

\* --------------------------------------------------------------- C14
\* The creation of the platform or of the renderer has failed.
CreationFailed ==
    ExitCount("NewGLFWPlatform=error") + ExitCount("NewOpenGL2Renderer=error") > 0

\* C14: once the creation of the platform or of the renderer has failed, no
\* phase of the loop has run or ever runs (nothing is called in the loop), and
\* when the process is over the fatal-error dialog and lg.SaveLogs have each
\* run once.
C14_StartupAborted ==
    CreationFailed =>
       /\ pc \in {"unwinding", "exited", "crashed"}
       /\ calls = <<>>
       /\ hist = <<>>
       /\ panicValue # "none"
       /\ ProcessOver =>
             /\ ExitCount("ShowFatalErrorDialog") = 1
             /\ ExitCount("lg.SaveLogs") = 1

\* The renderer could not be created and the process is over.
C14_Witness ==
    /\ ExitCount("NewOpenGL2Renderer=error") = 1
    /\ ProcessOver
    /\ platform = "created"

\* --------------------------------------------------------------- C18
\* C18: the deferred cleanup never calls renderer.Dispose, platform.Dispose
\* or context.Destroy on an object that was not created, and so never
\* faults: the process never dies of a panic raised in the cleanup.
C18_CleanupOnlyWhatExists ==
    /\ pc # "crashed"
    /\ ExitCount("renderer.Dispose on nil") = 0
    /\ ExitCount("platform.Dispose on nil") = 0
    /\ ExitCount("context.Destroy on nil") = 0

\* --------------------------------------------------------------- C15
\* The records made so far, in the order in which they were made.
RecordsMade == [r \in 1..(nextRecord - 1) |-> r]

\* Number of times the record r was handed to the consumer c.
TimesDelivered(r, c) ==
    Cardinality({i \in 1..Len(delivered[c]) : delivered[c][i] = r})

\* C15 as stated: no record is handed to a consumer twice; when the
\* propagation phase of an iteration is over, every record made before it
\* has been handed to all three consumers; and no record is lost: when the
\* loop has ended, every record made has been handed to all three.
C15_NoRecordLostOrRepeated ==
    /\ \A c \in Consumers : \A r \in 1..(nextRecord - 1) : TimesDelivered(r, c) <= 1
    /\ pc = "draw" => \A c \in Consumers : delivered[c] = RecordsMade
    /\ pc = "done" => \A c \in Consumers : delivered[c] = RecordsMade

\* C15 as amended: every record is either pending in controlUpdates or has
\* been handed, once, to all three consumers, in the order of recording;
\* when the propagation phase of an iteration is over, every record made
\* before it (in the draw phase of the iteration before or by GetUpdates of
\* this one) has been handed over and none is pending; Reset clears exactly
\* the records handed to all three consumers in the same step.  A record made
\* in the draw phase of the iteration whose exit-check breaks stays pending.
C15_Inv ==
    /\ \A c \in Consumers :
          /\ delivered[c] \o controlUpdates = RecordsMade
          /\ \A r \in 1..(nextRecord - 1) : TimesDelivered(r, c) <= 1
    /\ pc = "draw" =>
          /\ controlUpdates = <<>>
          /\ \A c \in Consumers : delivered[c] = RecordsMade

C15_ResetStep ==
    ResetStep =>
       /\ controlUpdates' = <<>>
       /\ \A c \in Consumers : delivered'[c] = delivered[c] \o controlUpdates

C15_DeliveredOnceWhileLoopRuns == []C15_Inv /\ [][C15_ResetStep]_vars

\* The loop has ended with two records delivered and one, made in the draw
\* phase of its last iteration, still pending.
C15_Witness ==
    /\ pc = "done"
    /\ Len(controlUpdates) = 1
    /\ \A c \in Consumers : Len(delivered[c]) = 2

\* --------------------------------------------------------------- C17
\* C17: the break of the exit-check is never taken while the session is
\* Connected.
C17_BreakStep == (pc' = "done" /\ pc # "done") => server = "Disconnected"

C17_NeverExitsConnected == [][C17_BreakStep]_vars

\* --------------------------------------------------------------- C16
\* C16: in a run in which the confirmation is not answered "no", an
\* acknowledged close request stays acknowledged and the close signal
\* raised, and no further dialog is opened; if from some point on no modal
\* dialog is open, the loop eventually exits; and an exit-check that finds
\* the request acknowledged and no modal dialog active exits, so with a
\* Disconnected session and no dialog open that is the exit-check of the
\* iteration after the one that first observed the request.
C16_Eventually ==
    <>[](Len(activeModalDialogs) = 0) => (wantExit ~> pc = "done")

C16_NextExitCheckStep ==
    /\ (pc = "exitcheck" /\ wantExit /\ Len(activeModalDialogs) = 0) => pc' = "done"
    /\ wantExit =>
          /\ wantExit' /\ shouldStop'
          /\ Len(activeModalDialogs') <= Len(activeModalDialogs)

C16_ShutdownProgress == C16_Eventually /\ [][C16_NextExitCheckStep]_vars

\* The loop has exited after the confirmation was answered "yes" and the
\* dialog of PromptToSaveIfChanged was answered too.
C16_Witness ==
    /\ pc = "done"
    /\ CountIn("server.Disconnect", 1, Len(hist)) = 1
    /\ frameIndex >= 3

====
